---- MODULE Spec2Model ----
(***************************************************************************)
(* Connection establishment of the AMQP server service                     *)
(* (src/server/factory.rs: ServerService::call, handshake,                 *)
(* open_connection) and the ControlFrame envelope (src/control.rs).        *)
(*                                                                         *)
(* One behaviour of Spec is one invocation of ServerService::call on one   *)
(* accepted transport.  Every step is one await point of the future the    *)
(* call returns, together with all the synchronous combinator code that    *)
(* runs when that await completes.  The peer, the transport, the SASL      *)
(* negotiator, the application factory, the Dispatcher and the disconnect  *)
(* hook are the environment: their outcomes are chosen with \E.            *)
(***************************************************************************)
EXTENDS Integers, Sequences, FiniteSets, TLC

\* ---------------------------------------------------------------- bounds
MaxChallenges == 1      \* SASL challenge/response rounds the peer is put through
MaxDispatch   == 2      \* mutations of the application state during dispatch
MaxFrames     == 3      \* ControlFrame handles alive at once
MaxSessions   == 2      \* distinct session cells
NConns        == 2      \* connections served concurrently

\* ---------------------------------------------------------------- values
ProtocolIds == {"Amqp", "AmqpSasl", "AmqpTls"}

\* amqp_codec::protocol::Frame variants that can follow the negotiation
FrameTypes == {"Open", "Begin", "Attach", "Close"}

\* what the peer declares in its Open frame
OpenParams == {1, 2}

\* the parameters Configuration::to_open puts in the local Open frame
LocalOpen == 0

\* ProtocolIdError values the protocol-ID codec returns from a failed read
ProtocolIdReadErrors == {"Io", "InvalidHeader"}

NoError == [kind |-> "None", sub |-> "-", exp |-> "-", got |-> "-"]

\* HandshakeError::Disconnected
HsDisconnected == [kind |-> "Disconnected", sub |-> "-", exp |-> "-", got |-> "-"]

\* HandshakeError::from(ProtocolIdError::Unexpected { exp, got })
HsUnexpectedProtocol(e, g) ==
    [kind |-> "Protocol", sub |-> "Unexpected", exp |-> e, got |-> g]

\* HandshakeError::from(ProtocolIdError::Disconnected)
HsProtocolDisconnected ==
    [kind |-> "Protocol", sub |-> "Disconnected", exp |-> "-", got |-> "-"]

\* HandshakeError::from(e) for an error e of the protocol-ID codec
HsProtocolError(e) == [kind |-> "Protocol", sub |-> e, exp |-> "-", got |-> "-"]

\* HandshakeError::from(e) for an error e of the AMQP frame codec
HsCodecError == [kind |-> "Codec", sub |-> "Io", exp |-> "-", got |-> "-"]

\* HandshakeError::Unexpected(frame)
HsUnexpected(f) == [kind |-> "Unexpected", sub |-> "-", exp |-> "-", got |-> f]

\* HandshakeError::Service
HsService == [kind |-> "Service", sub |-> "-", exp |-> "-", got |-> "-"]

\* the errors of the SASL negotiator
HsSasl(s) == [kind |-> "Sasl", sub |-> s, exp |-> "-", got |-> "-"]

\* the unit error () of ServerService::Error
UnitError == [kind |-> "Unit", sub |-> "-", exp |-> "-", got |-> "-"]

\* ---------------------------------------------------------------- state
VARIABLES
    pc,          \* the await point the call's future is suspended at
    log,         \* every read and write performed on the transport, in order
    disconnect,  \* Inner.disconnect.is_some()
    path,        \* the arm of the match on the first protocol id
    hsError,     \* the HandshakeError inside the handshake future
    callerErr,   \* the error the future returned by call resolves with
    result,      \* "Pending", "Ok" or "Err": resolution of call's future
    peerOpen,    \* the Open frame read by open_connection
    conn,        \* the Connection constructed by open_connection
    connAt,      \* Len(log) when the Connection was constructed
    factoryCalls,\* invocations of Inner.factory
    factoryAt,   \* Len(log) at the (last) invocation of the factory
    factoryArg,  \* credentials passed to the factory
    appl,        \* (st, srv) as returned by the factory: "None" or "Some"
    saslRuns,    \* number of Sasl negotiators created
    challenges,  \* SASL challenge rounds done
    disp,        \* Dispatcher: "Idle", "Running", "Done"
    dispConn,    \* the Connection handed to the Dispatcher
    dispRes,     \* the Result the Dispatcher terminated with
    dispCause,   \* why the Dispatcher terminated
    stCell,      \* contents of the Cell<St> created on line 178
    hookCalls,   \* invocations of the disconnect service
    hookSaw,     \* contents of the cell as seen through State by the hook
    hookRes,     \* outcome of the disconnect service
    frames,      \* ControlFrame handles: sequence of cell ids
    inner,       \* FrameInner cells: cell id -> [kind, session]
    cpc,         \* per connection served concurrently: its stage
    carm,        \* per connection: the arm of the match it took
    mutators,    \* per object: the connections whose steps mutated it
    readers      \* per object: the connections whose steps read it

hsVars == <<pc, log, disconnect, path, hsError, callerErr, result, peerOpen, conn,
            connAt,
            factoryCalls, factoryAt, factoryArg, appl, saslRuns, challenges,
            disp, dispConn, dispRes, dispCause, stCell, hookCalls, hookSaw,
            hookRes>>
cfVars == <<frames, inner>>
shVars == <<cpc, carm, mutators, readers>>
vars == <<hsVars, cfVars, shVars>>

NoConn == [remote |-> -1, local |-> -1]

\* ---------------------------------------------------------------- transport log
\* op: "read" or "write"; codec: the framing in force, "pid" (ProtocolIdCodec),
\* "sasl" (AmqpCodec<SaslFrame>) or "amqp" (AmqpCodec<AmqpFrame>); val: the
\* protocol id or frame type; ch: the channel of an AMQP frame; arg: the
\* parameters carried; res: "ok", "eof" (stream ended) or "err"
Event(o, c, v, h, a, r) ==
    [op |-> o, codec |-> c, val |-> v, ch |-> h, arg |-> a, res |-> r]
Rd(c, v, h, a, r) == Event("read", c, v, h, a, r)
Wr(c, v, h, a, r) == Event("write", c, v, h, a, r)
WrRes(ok) == IF ok THEN "ok" ELSE "err"

\* ---------------------------------------------------------------- call, lines 176-196
\* MapErr passing the error through
MapErrKeep(e) == e

\* .map_err(|_| ())
MapErr(e) == UnitError

Continue(p) ==
    /\ pc' = p
    /\ UNCHANGED <<hsError, callerErr, result>>

\* Fail that keeps the error and leaves the boxed future pending for ever
FailNeverResolving(e) ==
    /\ hsError' = e
    /\ callerErr' = callerErr
    /\ result' = result
    /\ pc' = "stalled"

\* the handshake future resolved with Err(e): map_err on line 176 and the
\* and_then on line 177 is skipped, the boxed future resolves with Err(())
Fail(e) ==
    /\ hsError' = e
    /\ callerErr' = MapErr(e)
    /\ result' = "Err"
    /\ pc' = "done"

\* the handshake future resolved with Ok((st, srv, conn)): lines 177-181
StartDispatcher(c) ==
    /\ stCell' = 0
    /\ disp' = "Running"
    /\ dispConn' = c
    /\ pc' = "dispatch"
    /\ UNCHANGED <<hsError, callerErr, result>>

dispVars == <<disp, dispConn, dispRes, dispCause, stCell>>
hookVars == <<hookCalls, hookSaw, hookRes>>
factVars == <<factoryCalls, factoryAt, factoryArg, appl>>
saslVars == <<saslRuns, challenges>>
connVars == <<peerOpen, conn, connAt>>

\* ---------------------------------------------------------------- call, lines 115-175
\* Negotiate with the AmqpTls arm missing: the id falls into the Amqp arm
NegotiateTlsAsAmqp(protocol) ==
    CASE protocol = "Amqp"     -> "amqp"
      [] protocol = "AmqpSasl" -> "sasl"
      [] protocol = "AmqpTls"  -> "amqp"
      [] OTHER                 -> "eof"

\* the match on the first protocol id: the arm taken
Negotiate(protocol) ==
    CASE protocol = "Amqp"     -> "amqp"
      [] protocol = "AmqpSasl" -> "sasl"
      [] protocol = "AmqpTls"  -> "tls"
      [] OTHER                 -> "eof"

\* EchoSasl copied from the Amqp arm
EchoSaslCopied == "Amqp"

\* the identifier each arm sends back
EchoAmqp == "Amqp"
EchoSasl == "AmqpSasl"

\* NegotiateError with exp and got exchanged
NegotiateErrorSwapped(arm) ==
    CASE arm = "tls" -> HsUnexpectedProtocol("AmqpTls", "Amqp")
      [] arm = "eof" -> HsDisconnected
      [] OTHER       -> NoError

\* the error an arm resolves with at once
NegotiateError(arm) ==
    CASE arm = "tls" -> HsUnexpectedProtocol("Amqp", "AmqpTls")
      [] arm = "eof" -> HsDisconnected
      [] OTHER       -> NoError

\* Framed::new(req, ProtocolIdCodec).into_future() and the match
ReadProtocol ==
    /\ pc = "read_protocol"
    /\ \/ \E p \in ProtocolIds :
            /\ log' = Append(log, Rd("pid", p, 0, 0, "ok"))
            /\ path' = Negotiate(p)
            /\ IF NegotiateError(path') # NoError
                  THEN Fail(NegotiateError(path'))
                  ELSE Continue(IF path' = "amqp" THEN "send_amqp" ELSE "send_sasl")
       \/ /\ log' = Append(log, Rd("pid", "-", 0, 0, "eof"))
          /\ path' = Negotiate("-")
          /\ Fail(NegotiateError(path'))
       \/ \E e \in ProtocolIdReadErrors :
            /\ log' = Append(log, Rd("pid", "-", 0, 0, "err"))
            /\ path' = path
            /\ Fail(HsProtocolError(e))
    /\ UNCHANGED <<disconnect, connVars, factVars, saslVars, dispVars, hookVars>>

\* SendAmqp that goes on to the Open exchange whether or not the echo was sent
SendAmqpIgnoringError ==
    /\ pc = "send_amqp"
    /\ \E ok \in BOOLEAN :
         /\ log' = Append(log, Wr("pid", EchoAmqp, 0, 0, WrRes(ok)))
         /\ Continue("open_read")
    /\ UNCHANGED <<disconnect, path, connVars, factVars, saslVars, dispVars, hookVars>>

\* framed.send(ProtocolId::Amqp) of the Amqp arm
SendAmqp ==
    /\ pc = "send_amqp"
    /\ \E ok \in BOOLEAN :
         /\ log' = Append(log, Wr("pid", EchoAmqp, 0, 0, WrRes(ok)))
         /\ IF ok THEN Continue("open_read") ELSE Fail(HsProtocolError("Io"))
    /\ UNCHANGED <<disconnect, path, connVars, factVars, saslVars, dispVars, hookVars>>

\* framed.send(ProtocolId::AmqpSasl) of the AmqpSasl arm, then Sasl::new
SendSasl ==
    /\ pc = "send_sasl"
    /\ \E ok \in BOOLEAN :
         /\ log' = Append(log, Wr("pid", EchoSasl, 0, 0, WrRes(ok)))
         /\ IF ok
               THEN /\ saslRuns' = saslRuns + 1
                    /\ Continue("sasl_mech")
               ELSE /\ saslRuns' = saslRuns
                    /\ Fail(HsProtocolError("Io"))
    /\ UNCHANGED <<disconnect, path, connVars, factVars, challenges, dispVars, hookVars>>

\* ---------------------------------------------------------------- SASL negotiator
\* mechanisms announcement
SaslMechanisms ==
    /\ pc = "sasl_mech"
    /\ \E ok \in BOOLEAN :
         /\ log' = Append(log, Wr("sasl", "Mechanisms", 0, 0, WrRes(ok)))
         /\ IF ok THEN Continue("sasl_init") ELSE Fail(HsCodecError)
    /\ UNCHANGED <<disconnect, path, connVars, factVars, saslVars, dispVars, hookVars>>

\* the peer selects a mechanism (arg 1: offered, arg 0: not offered)
SaslInit ==
    /\ pc = "sasl_init"
    /\ \/ \E m \in {0, 1}, next \in {"sasl_challenge", "sasl_auth"} :
            /\ log' = Append(log, Rd("sasl", "Init", 0, m, "ok"))
            /\ IF m = 1 THEN Continue(next) ELSE Fail(HsSasl("Mechanism"))
       \/ /\ log' = Append(log, Rd("sasl", "-", 0, 0, "eof"))
          /\ Fail(HsDisconnected)
       \/ /\ log' = Append(log, Rd("sasl", "-", 0, 0, "err"))
          /\ Fail(HsCodecError)
    /\ UNCHANGED <<disconnect, path, connVars, factVars, saslVars, dispVars, hookVars>>

\* one challenge/response round: the challenge
SaslChallenge ==
    /\ pc = "sasl_challenge"
    /\ challenges < MaxChallenges
    /\ challenges' = challenges + 1
    /\ \E ok \in BOOLEAN :
         /\ log' = Append(log, Wr("sasl", "Challenge", 0, 0, WrRes(ok)))
         /\ IF ok THEN Continue("sasl_response") ELSE Fail(HsCodecError)
    /\ UNCHANGED <<disconnect, path, connVars, factVars, saslRuns, dispVars, hookVars>>

\* one challenge/response round: the response
SaslResponse ==
    /\ pc = "sasl_response"
    /\ \/ \E next \in {"sasl_challenge", "sasl_auth"} :
            /\ next = "sasl_challenge" => challenges < MaxChallenges
            /\ log' = Append(log, Rd("sasl", "Response", 0, 0, "ok"))
            /\ Continue(next)
       \/ /\ log' = Append(log, Rd("sasl", "-", 0, 0, "eof"))
          /\ Fail(HsDisconnected)
       \/ /\ log' = Append(log, Rd("sasl", "-", 0, 0, "err"))
          /\ Fail(HsCodecError)
    /\ UNCHANGED <<disconnect, path, connVars, factVars, saslVars, dispVars, hookVars>>

\* the credentials are handed to the application, which accepts or rejects them
\* and produces (st, srv)
SaslAuth ==
    /\ pc = "sasl_auth"
    /\ factoryCalls' = factoryCalls + 1
    /\ factoryAt' = Len(log)
    /\ factoryArg' = "Some"
    /\ \E ok \in BOOLEAN :
         IF ok THEN appl' = "Some" /\ Continue("sasl_outcome")
               ELSE appl' = appl /\ Fail(HsSasl("Auth"))
    /\ UNCHANGED <<log, disconnect, path, connVars, saslVars, dispVars, hookVars>>

\* ---------------------------------------------------------------- call, lines 158-163
\* what the AmqpSasl arm does with the negotiator's (st, srv, framed):
\* framed.into_framed(ProtocolIdCodec), then handshake(cfg, framed)
\* AfterSasl that re-enters the match of call
AfterSaslRestart == "read_protocol"

AfterSasl == "hs_read"

\* the outcome frame; on success the negotiator yields (st, srv, framed)
SaslOutcome ==
    /\ pc = "sasl_outcome"
    /\ \E ok \in BOOLEAN :
         /\ log' = Append(log, Wr("sasl", "Outcome", 0, 0, WrRes(ok)))
         /\ IF ok THEN Continue(AfterSasl) ELSE Fail(HsCodecError)
    /\ UNCHANGED <<disconnect, path, connVars, factVars, saslVars, dispVars, hookVars>>

\* ---------------------------------------------------------------- handshake, lines 201-233
\* HandshakeCheck that also lets AmqpSasl through
HandshakeCheckAcceptsSasl(protocol) ==
    IF protocol # "-"
      THEN IF protocol \in {"Amqp", "AmqpSasl"} THEN NoError
           ELSE HsUnexpectedProtocol("Amqp", protocol)
      ELSE HsProtocolDisconnected

\* the check of the protocol id read after SASL: the error, or NoError
HandshakeCheck(protocol) ==
    IF protocol # "-"
      THEN IF protocol = "Amqp" THEN NoError
           ELSE HsUnexpectedProtocol("Amqp", protocol)
      ELSE HsProtocolDisconnected

EchoHandshake == "Amqp"

\* HandshakeRead that answers a second AmqpSasl with another SASL exchange
HandshakeReadRetryingSasl ==
    /\ pc = "hs_read"
    /\ \/ \E p \in ProtocolIds :
            /\ log' = Append(log, Rd("pid", p, 0, 0, "ok"))
            /\ IF p = "AmqpSasl" THEN Continue("sasl_mech")
               ELSE IF HandshakeCheck(p) = NoError
                 THEN Continue("hs_send") ELSE Fail(HandshakeCheck(p))
       \/ /\ log' = Append(log, Rd("pid", "-", 0, 0, "eof"))
          /\ Fail(HandshakeCheck("-"))
       \/ \E e \in ProtocolIdReadErrors :
            /\ log' = Append(log, Rd("pid", "-", 0, 0, "err"))
            /\ Fail(HsProtocolError(e))
    /\ UNCHANGED <<disconnect, path, connVars, factVars, saslVars, dispVars, hookVars>>

\* framed.into_future() and the first and_then
HandshakeRead ==
    /\ pc = "hs_read"
    /\ \/ \E p \in ProtocolIds :
            /\ log' = Append(log, Rd("pid", p, 0, 0, "ok"))
            /\ IF HandshakeCheck(p) = NoError
                 THEN Continue("hs_send") ELSE Fail(HandshakeCheck(p))
       \/ /\ log' = Append(log, Rd("pid", "-", 0, 0, "eof"))
          /\ Fail(HandshakeCheck("-"))
       \/ \E e \in ProtocolIdReadErrors :
            /\ log' = Append(log, Rd("pid", "-", 0, 0, "err"))
            /\ Fail(HsProtocolError(e))
    /\ UNCHANGED <<disconnect, path, connVars, factVars, saslVars, dispVars, hookVars>>

\* framed.send(ProtocolId::Amqp), then into_framed(AmqpCodec) and open_connection
HandshakeSend ==
    /\ pc = "hs_send"
    /\ \E ok \in BOOLEAN :
         /\ log' = Append(log, Wr("pid", EchoHandshake, 0, 0, WrRes(ok)))
         /\ IF ok THEN Continue("open_read") ELSE Fail(HsProtocolError("Io"))
    /\ UNCHANGED <<disconnect, path, connVars, factVars, saslVars, dispVars, hookVars>>

\* ---------------------------------------------------------------- open_connection, lines 235-268
\* OpenCheck that takes whatever frame arrives as the Open
OpenCheckAnyFrame(frame) ==
    IF frame # "-" THEN NoError ELSE HsDisconnected

\* the match on the first AMQP frame: the error, or NoError for Frame::Open
OpenCheck(frame) ==
    IF frame # "-"
      THEN IF frame = "Open" THEN NoError ELSE HsUnexpected(frame)
      ELSE HsDisconnected

\* channel of the local Open frame: AmqpFrame::new(0, local.into())
OpenChannel == 0

\* NewConnection that takes the remote parameters from the local Open
NewConnectionFromLocal(open) == [remote |-> LocalOpen, local |-> LocalOpen]

\* Connection::new(framed, cfg, (&open).into(), None)
NewConnection(open) == [remote |-> open, local |-> LocalOpen]

\* framed.into_future() and the first and_then
OpenRead ==
    /\ pc = "open_read"
    /\ \/ \E f \in FrameTypes, h \in {0, 1}, a \in OpenParams :
            /\ log' = Append(log, Rd("amqp", f, h, a, "ok"))
            /\ IF OpenCheck(f) = NoError
                 THEN peerOpen' = a /\ Continue("open_send")
                 ELSE peerOpen' = peerOpen /\ Fail(OpenCheck(f))
       \/ /\ log' = Append(log, Rd("amqp", "-", 0, 0, "eof"))
          /\ peerOpen' = peerOpen
          /\ Fail(OpenCheck("-"))
       \/ /\ log' = Append(log, Rd("amqp", "-", 0, 0, "err"))
          /\ peerOpen' = peerOpen
          /\ Fail(HsCodecError)
    /\ UNCHANGED <<disconnect, path, conn, connAt, factVars, saslVars, dispVars, hookVars>>

\* OpenSend with one continuation for both arms: the factory call
OpenSendThenFactory ==
    /\ pc = "open_send"
    /\ \E ok \in BOOLEAN :
         /\ log' = Append(log, Wr("amqp", "Open", OpenChannel, LocalOpen, WrRes(ok)))
         /\ IF ok
              THEN /\ conn' = NewConnection(peerOpen)
                   /\ connAt' = Len(log')
                   /\ Continue("factory")
              ELSE /\ Fail(HsCodecError)
                   /\ UNCHANGED <<conn, connAt>>
    /\ UNCHANGED <<disconnect, path, peerOpen, factVars, saslVars, dispVars, hookVars>>

\* the second and_then: send the local Open, construct the Connection; then
\* the continuation of the arm that called open_connection: the factory call
\* (lines 134-141) or, with (st, srv) of the negotiator, lines 162 and 177-181
OpenSend ==
    /\ pc = "open_send"
    /\ \E ok \in BOOLEAN :
         /\ log' = Append(log, Wr("amqp", "Open", OpenChannel, LocalOpen, WrRes(ok)))
         /\ IF ok
              THEN /\ conn' = NewConnection(peerOpen)
                   /\ connAt' = Len(log')
                   /\ IF path = "amqp"
                        THEN /\ Continue("factory")
                             /\ UNCHANGED dispVars
                        ELSE /\ StartDispatcher(conn')
                             /\ UNCHANGED <<dispRes, dispCause>>
              ELSE /\ Fail(HsCodecError)
                   /\ UNCHANGED <<conn, connAt, dispVars>>
    /\ UNCHANGED <<disconnect, path, peerOpen, factVars, saslVars, hookVars>>

\* FactoryCall that goes on to dispatch whatever the factory answered
FactoryCallIgnoringError ==
    /\ pc = "factory"
    /\ factoryCalls' = factoryCalls + 1
    /\ factoryAt' = Len(log)
    /\ factoryArg' = "None"
    /\ \E ok \in BOOLEAN :
         /\ appl' = IF ok THEN "Some" ELSE appl
         /\ StartDispatcher(conn)
         /\ UNCHANGED <<dispRes, dispCause>>
    /\ UNCHANGED <<log, disconnect, path, connVars, saslVars, hookVars>>

\* ---------------------------------------------------------------- call, lines 134-141
\* inner.get_mut().factory.call((None, param)) of the Amqp arm
FactoryCall ==
    /\ pc = "factory"
    /\ factoryCalls' = factoryCalls + 1
    /\ factoryAt' = Len(log)
    /\ factoryArg' = "None"
    /\ \E ok \in BOOLEAN :
         IF ok THEN /\ appl' = "Some"
                    /\ StartDispatcher(conn)
                    /\ UNCHANGED <<dispRes, dispCause>>
               ELSE /\ appl' = appl
                    /\ Fail(HsService)
                    /\ UNCHANGED dispVars
    /\ UNCHANGED <<log, disconnect, path, connVars, saslVars, hookVars>>

\* ---------------------------------------------------------------- call, lines 177-196
\* the Dispatcher mutates the application state through its handle of the cell
DispatchStep ==
    /\ pc = "dispatch"
    /\ stCell < MaxDispatch
    /\ stCell' = stCell + 1
    /\ UNCHANGED <<pc, log, disconnect, path, hsError, callerErr, result, connVars,
                   factVars, saslVars, disp, dispConn, dispRes, dispCause, hookVars>>

\* the Result of the Dispatcher for each cause of termination
DispatcherResult(cause) == IF cause = "Close" THEN "Ok" ELSE "Err"

Causes == {"Close", "ProtocolError", "TransportError"}

\* ThenRes letting a failed hook fail the call
ThenResHookFails(res, h) == IF h = "Err" THEN "Err" ELSE res

\* .then(move |_| res): what the call resolves with after the hook finished
\* with outcome h
ThenRes(res, h) == res

\* State::new given a copy of the application state taken on line 179
StateViewOfCopy(now, atStart) == atStart

\* State::new(st.clone()): the State handed to the hook is a handle of the
\* cell the Dispatcher works on; what is seen through it, given the contents
\* now and the contents when the handle was made
StateView(now, atStart) == now

\* DispatcherDone that calls the hook only after a successful dispatch
DispatcherDoneHookOnOk ==
    /\ pc = "dispatch"
    /\ \E cause \in Causes :
         /\ dispCause' = cause
         /\ dispRes' = DispatcherResult(cause)
    /\ disp' = "Done"
    /\ IF disconnect /\ dispRes' = "Ok"
         THEN /\ hookCalls' = hookCalls + 1
              /\ hookSaw' = StateView(stCell, 0)
              /\ pc' = "hook"
              /\ UNCHANGED <<callerErr, result>>
         ELSE /\ result' = dispRes'
              /\ callerErr' = IF dispRes' = "Err" THEN UnitError ELSE NoError
              /\ pc' = "done"
              /\ UNCHANGED <<hookCalls, hookSaw>>
    /\ UNCHANGED <<log, disconnect, path, hsError, connVars, factVars, saslVars,
                   dispConn, stCell, hookRes>>

\* the Dispatcher terminates with res; the closure of lines 181-195 runs
DispatcherDone ==
    /\ pc = "dispatch"
    /\ \E cause \in Causes :
         /\ dispCause' = cause
         /\ dispRes' = DispatcherResult(cause)
    /\ disp' = "Done"
    /\ IF disconnect
         THEN /\ hookCalls' = hookCalls + 1
              /\ hookSaw' = StateView(stCell, 0)
              /\ pc' = "hook"
              /\ UNCHANGED <<callerErr, result>>
         ELSE /\ result' = dispRes'
              /\ callerErr' = IF dispRes' = "Err" THEN UnitError ELSE NoError
              /\ pc' = "done"
              /\ UNCHANGED <<hookCalls, hookSaw>>
    /\ UNCHANGED <<log, disconnect, path, hsError, connVars, factVars, saslVars,
                   dispConn, stCell, hookRes>>

\* the disconnect service completes with Ok(()) or Err(())
HookDone ==
    /\ pc = "hook"
    /\ \E h \in {"Ok", "Err"} :
         /\ hookRes' = h
         /\ result' = ThenRes(dispRes, h)
         /\ callerErr' = IF result' = "Err" THEN UnitError ELSE NoError
    /\ pc' = "done"
    /\ UNCHANGED <<log, disconnect, path, hsError, connVars, factVars, saslVars,
                   dispVars, hookCalls, hookSaw>>

\* ---------------------------------------------------------------- shared Inner
\* the connections served at the same time by services cloned from one Server
Conns == 1..NConns

\* the objects a step can touch: the fields of the Inner all services share
\* (owner 0) and what each call owns (its Framed, its Cell<St>, its Connection)
InnerFields == {"factory", "config", "disconnect"}
Objects == [name : InnerFields, owner : {0}]
             \cup [name : {"framed", "st", "conn"}, owner : Conns]
Shared(n) == [name |-> n, owner |-> 0]
Own(n, c) == [name |-> n, owner |-> c]

\* connection c mutates the objects ms and reads the objects rs
Touch(c, ms, rs) ==
    /\ mutators' = [o \in Objects |-> IF o \in ms THEN mutators[o] \cup {c}
                                      ELSE mutators[o]]
    /\ readers' = [o \in Objects |-> IF o \in rs THEN readers[o] \cup {c}
                                     ELSE readers[o]]

SharedInit ==
    /\ cpc = [c \in Conns |-> "negotiate"]
    /\ carm = [c \in Conns |-> "none"]
    /\ mutators = [o \in Objects |-> {}]
    /\ readers = [o \in Objects |-> {}]

\* lines 116-131, 146-152: the protocol-id round trip on the call's own Framed
CNegotiate(c) ==
    /\ cpc[c] = "negotiate"
    /\ \E arm \in {"amqp", "sasl", "failed"} :
         /\ carm' = [carm EXCEPT ![c] = arm]
         /\ cpc' = [cpc EXCEPT ![c] =
                      CASE arm = "amqp" -> "open" [] arm = "sasl" -> "sasl"
                        [] OTHER -> "done"]
    /\ Touch(c, {Own("framed", c)}, {})

\* lines 153-157: Sasl::new(param, &mut inner, framed); the negotiator calls
\* the factory of the shared Inner with the credentials
CSasl(c) ==
    /\ cpc[c] = "sasl"
    /\ \E ok \in BOOLEAN :
         cpc' = [cpc EXCEPT ![c] = IF ok THEN "open" ELSE "done"]
    /\ carm' = carm
    /\ Touch(c, {Own("framed", c), Shared("factory")}, {})

\* COpen that changes the shared configuration in place instead of cloning it
COpenMutatingConfig(c) ==
    /\ cpc[c] = "open"
    /\ \E ok \in BOOLEAN :
         cpc' = [cpc EXCEPT ![c] =
                   IF ~ok THEN "done"
                   ELSE IF carm[c] = "amqp" THEN "factory" ELSE "dispatch"]
    /\ carm' = carm
    /\ Touch(c, {Own("framed", c), Own("conn", c), Shared("config")}, {})

\* lines 133, 161 and open_connection: inner.config.clone(), the Open
\* exchange on the call's Framed, Connection::new
COpen(c) ==
    /\ cpc[c] = "open"
    /\ \E ok \in BOOLEAN :
         cpc' = [cpc EXCEPT ![c] =
                   IF ~ok THEN "done"
                   ELSE IF carm[c] = "amqp" THEN "factory" ELSE "dispatch"]
    /\ carm' = carm
    /\ Touch(c, {Own("framed", c), Own("conn", c)}, {Shared("config")})

\* lines 135-140: inner.get_mut().factory.call((None, param))
CFactory(c) ==
    /\ cpc[c] = "factory"
    /\ \E ok \in BOOLEAN :
         cpc' = [cpc EXCEPT ![c] = IF ok THEN "dispatch" ELSE "done"]
    /\ carm' = carm
    /\ Touch(c, {Shared("factory")}, {})

\* lines 178-195: the Dispatcher works on its Connection and its Cell<St>;
\* when it ends, inner.disconnect.is_some() is read and, with a hook,
\* inner.get_mut().disconnect.as_mut().unwrap().call(state)
CDispatch(c) ==
    /\ cpc[c] = "dispatch"
    /\ carm' = carm
    /\ IF disconnect
         THEN /\ cpc' = [cpc EXCEPT ![c] = "hook"]
              /\ Touch(c, {Own("conn", c), Own("st", c), Shared("disconnect")},
                          {Shared("disconnect")})
         ELSE /\ cpc' = [cpc EXCEPT ![c] = "done"]
              /\ Touch(c, {Own("conn", c), Own("st", c)}, {Shared("disconnect")})

\* line 190: the hook, holding the State of this call, completes
CHook(c) ==
    /\ cpc[c] = "hook"
    /\ cpc' = [cpc EXCEPT ![c] = "done"]
    /\ carm' = carm
    /\ Touch(c, {Own("st", c)}, {})

\* ---------------------------------------------------------------- specification
HsInit ==
    /\ pc = "read_protocol"
    /\ log = <<>>
    /\ disconnect \in BOOLEAN
    /\ path = "none"
    /\ hsError = NoError
    /\ callerErr = NoError
    /\ result = "Pending"
    /\ peerOpen = -1
    /\ conn = NoConn
    /\ connAt = -1
    /\ factoryCalls = 0
    /\ factoryAt = -1
    /\ factoryArg = "-"
    /\ appl = "None"
    /\ saslRuns = 0
    /\ challenges = 0
    /\ disp = "Idle"
    /\ dispConn = NoConn
    /\ dispRes = "-"
    /\ dispCause = "-"
    /\ stCell = -1
    /\ hookCalls = 0
    /\ hookSaw = -1
    /\ hookRes = "-"

Init ==
    /\ HsInit
    /\ frames = <<>>
    /\ inner = <<>>
    /\ SharedInit

Next ==
    \/ ReadProtocol /\ UNCHANGED <<cfVars, shVars>>
    \/ SendAmqp /\ UNCHANGED <<cfVars, shVars>>
    \/ SendSasl /\ UNCHANGED <<cfVars, shVars>>
    \/ SaslMechanisms /\ UNCHANGED <<cfVars, shVars>>
    \/ SaslInit /\ UNCHANGED <<cfVars, shVars>>
    \/ SaslChallenge /\ UNCHANGED <<cfVars, shVars>>
    \/ SaslResponse /\ UNCHANGED <<cfVars, shVars>>
    \/ SaslAuth /\ UNCHANGED <<cfVars, shVars>>
    \/ SaslOutcome /\ UNCHANGED <<cfVars, shVars>>
    \/ HandshakeRead /\ UNCHANGED <<cfVars, shVars>>
    \/ HandshakeSend /\ UNCHANGED <<cfVars, shVars>>
    \/ OpenRead /\ UNCHANGED <<cfVars, shVars>>
    \/ OpenSend /\ UNCHANGED <<cfVars, shVars>>
    \/ FactoryCall /\ UNCHANGED <<cfVars, shVars>>
    \/ DispatchStep /\ UNCHANGED <<cfVars, shVars>>
    \/ DispatcherDone /\ UNCHANGED <<cfVars, shVars>>
    \/ HookDone /\ UNCHANGED <<cfVars, shVars>>

Spec == Init /\ [][Next]_vars

\* ---------------------------------------------------------------- control.rs
\* ControlFrameKind, without the payloads
Kinds == {"AttachReceiver", "AttachSender", "Flow", "DetachSender",
          "DetachReceiver", "ProtocolError", "Closed"}

LinkScoped == {"AttachReceiver", "AttachSender", "Flow", "DetachSender",
               "DetachReceiver"}

\* Option<Cell<SessionInner>>
None == [some |-> FALSE, cell |-> 0]
Some(c) == [some |-> TRUE, cell |-> c]

\* the unwrap of a None panics
Panic == -1

\* new that drops the session
newWithoutSession(sess, kind) == [kind |-> kind, session |-> None]

\* ControlFrame::new: the FrameInner put in the new cell
new(sess, kind) == [kind |-> kind, session |-> Some(sess)]

\* ControlFrame::new_kind: the FrameInner put in the new cell
new_kind(kind) == [kind |-> kind, session |-> None]

\* ControlFrame::clone: the cell the new handle refers to
clone(handle) == handle

\* ControlFrame::session on a handle
session(handle) ==
    IF inner[handle].session.some THEN inner[handle].session.cell ELSE Panic

\* ControlFrame::frame on a handle
frame(handle) == inner[handle].kind

\* a session emits a lifecycle event of one of its links, or its own end
EmitSessionEvent ==
    /\ Len(frames) < MaxFrames
    /\ \E s \in 1..MaxSessions, k \in Kinds :
         /\ inner' = Append(inner, new(s, k))
         /\ frames' = Append(frames, Len(inner'))

\* the connection emits an event that belongs to no session
EmitConnectionEvent ==
    /\ Len(frames) < MaxFrames
    /\ \E k \in Kinds \ LinkScoped :
         /\ inner' = Append(inner, new_kind(k))
         /\ frames' = Append(frames, Len(inner'))

\* a consumer duplicates a frame it holds
CloneFrame ==
    /\ Len(frames) < MaxFrames
    /\ \E i \in 1..Len(frames) :
         frames' = Append(frames, clone(frames[i]))
    /\ inner' = inner

ControlInit ==
    /\ HsInit
    /\ disconnect = FALSE
    /\ frames = <<>>
    /\ inner = <<>>
    /\ SharedInit

ControlNext ==
    \/ EmitSessionEvent /\ UNCHANGED <<hsVars, shVars>>
    \/ EmitConnectionEvent /\ UNCHANGED <<hsVars, shVars>>
    \/ CloneFrame /\ UNCHANGED <<hsVars, shVars>>

SpecControl == ControlInit /\ [][ControlNext]_vars

\* ================================================================ properties
IsRead(e, c)  == e.op = "read" /\ e.codec = c
IsWrite(e, c) == e.op = "write" /\ e.codec = c
Resolved == result # "Pending"
HandshakeFailed == hsError # NoError

\* C1: each of the four possible first frames takes its own branch and no
\* other: Amqp goes on to the echo and the Open exchange (no SASL framing),
\* AmqpSasl goes on to the echo and the SASL exchange, AmqpTls fails with
\* UnexpectedProtocol{exp Amqp, got AmqpTls}, end-of-stream fails with
\* Disconnected.
C1_FirstFrameBranch ==
    (Len(log) >= 1 /\ log[1].res # "err") =>
      LET f == log[1] IN
        /\ (f.res = "ok" /\ f.val = "Amqp") =>
              /\ path = "amqp"
              /\ saslRuns = 0
              /\ \A i \in 1..Len(log) : log[i].codec # "sasl"
              /\ Len(log) = 1 => (pc = "send_amqp" /\ ~HandshakeFailed)
              /\ Len(log) >= 3 => IsRead(log[3], "amqp")
              /\ hsError \notin {HsUnexpectedProtocol("Amqp", "AmqpTls"), HsDisconnected}
                    \/ Len(log) >= 3
        /\ (f.res = "ok" /\ f.val = "AmqpSasl") =>
              /\ path = "sasl"
              /\ Len(log) = 1 => (pc = "send_sasl" /\ ~HandshakeFailed)
              /\ Len(log) >= 3 => (log[3].codec = "sasl" /\ saslRuns = 1)
              /\ hsError \notin {HsUnexpectedProtocol("Amqp", "AmqpTls"), HsDisconnected}
                    \/ Len(log) >= 3
        /\ (f.res = "ok" /\ f.val = "AmqpTls") =>
              /\ hsError = HsUnexpectedProtocol("Amqp", "AmqpTls")
              /\ result = "Err" /\ pc = "done" /\ saslRuns = 0 /\ disp = "Idle"
        /\ f.res = "eof" =>
              /\ hsError = HsDisconnected
              /\ result = "Err" /\ pc = "done" /\ saslRuns = 0 /\ disp = "Idle"

C1_Witness ==
    /\ Len(log) >= 3 /\ log[1].val = "AmqpSasl" /\ log[3].codec = "sasl"
    /\ pc = "sasl_init"

\* C2: every protocol id written is the id read just before it, every
\* accepted id is answered by its echo before anything else happens on the
\* transport, and SASL or AMQP framing is only used after an echo was written.
Accepted(i) ==
    /\ IsRead(log[i], "pid") /\ log[i].res = "ok"
    /\ IF i = 1 THEN log[i].val \in {"Amqp", "AmqpSasl"} ELSE log[i].val = "Amqp"

C2_EchoSymmetry ==
    \A i \in 1..Len(log) :
      /\ IsWrite(log[i], "pid") =>
            /\ i > 1
            /\ Accepted(i - 1)
            /\ log[i].val = log[i - 1].val
      /\ (Accepted(i) /\ i < Len(log)) =>
            /\ IsWrite(log[i + 1], "pid")
            /\ log[i + 1].val = log[i].val
      /\ log[i].codec # "pid" =>
            /\ i > 1
            /\ log[i - 1].codec = "pid" => (IsWrite(log[i - 1], "pid") /\ log[i - 1].res = "ok")

C2_Witness ==
    /\ path = "sasl" /\ pc = "open_send"
    /\ \E i \in 1..Len(log) : i > 2 /\ IsWrite(log[i], "pid") /\ log[i].val = "Amqp"

\* C3: a frame other than Open read by open_connection ends the handshake
\* with Unexpected(that frame); the local Open is not sent and no Connection
\* is constructed.
C3_OpenGating ==
    \A i \in 1..Len(log) :
      (IsRead(log[i], "amqp") /\ log[i].res = "ok" /\ log[i].val # "Open") =>
        /\ i = Len(log)
        /\ hsError = HsUnexpected(log[i].val)
        /\ result = "Err" /\ pc = "done"
        /\ conn = NoConn /\ dispConn = NoConn /\ disp = "Idle"
        /\ \A j \in 1..Len(log) : ~IsWrite(log[j], "amqp")

C3_Witness ==
    /\ hsError = HsUnexpected("Begin")
    /\ path = "sasl"
    /\ pc = "done"

C5_ResultPreserved ==
    /\ (disp = "Done" /\ Resolved) => result = dispRes
    /\ (disp = "Done" /\ ~disconnect) => Resolved
    /\ (disp = "Done" /\ Resolved /\ disconnect) => hookRes \in {"Ok", "Err"}

C5_Witness ==
    /\ disp = "Done" /\ Resolved
    /\ dispRes = "Ok" /\ hookRes = "Err" /\ result = "Ok"

\* C6 as stated: whenever the factory has been invoked, it has been invoked
\* once and the Open exchange was complete and a Connection existed by then.
C6_FactoryAfterHandshake ==
    factoryCalls > 0 =>
      /\ factoryCalls = 1
      /\ conn # NoConn
      /\ connAt <= factoryAt

\* C6 amended: the factory is invoked at most once per transport and exactly
\* once before a Dispatcher starts.  On the Amqp arm it is invoked without
\* credentials after the Open exchange, when the Connection exists.  On the
\* AmqpSasl arm it is invoked with the credentials during the SASL exchange,
\* before the second protocol-id round and the Open exchange: no Connection
\* exists yet and the handshake may still fail afterwards.
C6_FactoryOncePerArm ==
    /\ factoryCalls <= 1
    /\ disp # "Idle" => (factoryCalls = 1 /\ appl = "Some")
    /\ path \notin {"amqp", "sasl"} => factoryCalls = 0
    /\ (factoryCalls = 1 /\ path = "amqp") =>
          /\ factoryArg = "None"
          /\ conn # NoConn
          /\ connAt = factoryAt
          /\ IsWrite(log[factoryAt], "amqp") /\ log[factoryAt].res = "ok"
    /\ (factoryCalls = 1 /\ path = "sasl") =>
          /\ factoryArg = "Some"
          /\ log[factoryAt].codec = "sasl"
          /\ conn # NoConn => factoryAt < connAt
          /\ \A i \in 1..factoryAt : ~IsRead(log[i], "amqp")

C6_Witness ==
    /\ path = "sasl" /\ factoryCalls = 1 /\ appl = "Some"
    /\ conn = NoConn
    /\ hsError = HsDisconnected
    /\ IsRead(log[Len(log)], "amqp")

\* C7: a Dispatcher runs only after every stage succeeded (every read and
\* write of the negotiation, of the SASL exchange when selected and of the
\* Open exchange, and the factory call), on the Connection of the Open
\* exchange; after a failure at any stage none ever runs.
C7_DispatcherOnlyAfterSuccess ==
    /\ disp # "Idle" =>
          /\ ~HandshakeFailed
          /\ \A i \in 1..Len(log) : log[i].res = "ok"
          /\ Len(log) >= 4
          /\ Accepted(1) /\ IsWrite(log[2], "pid")
          /\ IsRead(log[Len(log) - 1], "amqp") /\ log[Len(log) - 1].val = "Open"
          /\ IsWrite(log[Len(log)], "amqp") /\ log[Len(log)].val = "Open"
          /\ path = "sasl" =>
                /\ \E i \in 1..Len(log) : IsWrite(log[i], "sasl") /\ log[i].val = "Outcome"
                /\ Accepted(Len(log) - 3) /\ IsWrite(log[Len(log) - 2], "pid")
          /\ factoryCalls = 1 /\ appl = "Some"
          /\ conn # NoConn /\ dispConn = conn
    /\ HandshakeFailed =>
          /\ disp = "Idle" /\ dispConn = NoConn /\ stCell = -1
          /\ result = "Err" /\ pc = "done"

C7_Witness ==
    /\ disp = "Running" /\ path = "sasl" /\ challenges = 1

\* C8 as stated: the error the caller receives is the classified handshake
\* error.
C8_CallerSeesClassifiedError ==
    (Resolved /\ HandshakeFailed) => callerErr = hsError

\* C8 amended: when the handshake fails, its future carries the error
\* classified by cause, and the call resolves with the unit error (): the
\* caller learns that the call failed, not why.
C8_ClassifiedThenUnit ==
    /\ callerErr \in {NoError, UnitError}
    /\ result = "Err" <=> callerErr = UnitError
    /\ HandshakeFailed =>
          /\ Resolved /\ result = "Err"
          /\ LET e == log[Len(log)] IN
               CASE e.res = "eof" /\ e.codec = "pid" ->
                      hsError = IF Len(log) = 1 THEN HsDisconnected
                                ELSE HsProtocolDisconnected
                 [] e.res = "eof" /\ e.codec # "pid" -> hsError = HsDisconnected
                 [] e.res = "err" /\ e.codec = "pid" ->
                      hsError.kind = "Protocol" /\ hsError.sub \in {"Io", "InvalidHeader"}
                 [] e.res = "err" /\ e.codec # "pid" -> hsError = HsCodecError
                 [] e.res = "ok" /\ IsRead(e, "pid") ->
                      hsError = HsUnexpectedProtocol("Amqp", e.val)
                 [] e.res = "ok" /\ IsRead(e, "amqp") -> hsError = HsUnexpected(e.val)
                 [] e.res = "ok" /\ IsRead(e, "sasl") ->
                      hsError = IF e.val = "Init" /\ e.arg = 0
                                THEN HsSasl("Mechanism") ELSE HsSasl("Auth")
                 [] OTHER -> hsError = HsService /\ factoryCalls = 1

C8_Witness ==
    /\ Resolved /\ callerErr = UnitError
    /\ hsError = HsService

\* C10: AmqpTls as the first frame fails the handshake at once with
\* UnexpectedProtocol{exp Amqp, got AmqpTls}; that read is the only thing the
\* server ever does on the transport.
C10_TlsRejectedAtOnce ==
    (Len(log) >= 1 /\ log[1].res = "ok" /\ log[1].val = "AmqpTls") =>
      /\ log = <<Rd("pid", "AmqpTls", 0, 0, "ok")>>
      /\ hsError.kind = "Protocol" /\ hsError.sub = "Unexpected"
      /\ hsError.exp = "Amqp" /\ hsError.got = "AmqpTls"
      /\ Resolved /\ result = "Err" /\ pc = "done"

C10_Witness ==
    /\ Len(log) = 1 /\ log[1].val = "AmqpTls" /\ path = "tls"
    /\ pc = "done"

Writes == SelectSeq(log, LAMBDA e : e.op = "write")
PidReads == SelectSeq(log, LAMBDA e : IsRead(e, "pid"))
PidWrites == SelectSeq(log, LAMBDA e : IsWrite(e, "pid"))

\* C11: on the AmqpSasl arm the protocol-id round trip happens twice and no
\* more; a handshake that succeeded wrote, in this order, the echo AmqpSasl,
\* the SASL frames, the echo Amqp and the local Open; the second id is
\* accepted only if it is Amqp, any other id fails with
\* UnexpectedProtocol{exp Amqp, got id} with no echo and no Open exchange.
C11_SaslTwoRoundTrips ==
    path = "sasl" =>
      /\ Len(PidReads) <= 2 /\ Len(PidWrites) <= 2
      /\ disp # "Idle" =>
            LET n == Len(Writes) IN
              /\ Len(PidReads) = 2 /\ Len(PidWrites) = 2
              /\ n >= 5
              /\ IsWrite(Writes[1], "pid") /\ Writes[1].val = "AmqpSasl"
              /\ \A k \in 2..(n - 2) : IsWrite(Writes[k], "sasl")
              /\ Writes[2].val = "Mechanisms" /\ Writes[n - 2].val = "Outcome"
              /\ IsWrite(Writes[n - 1], "pid") /\ Writes[n - 1].val = "Amqp"
              /\ IsWrite(Writes[n], "amqp") /\ Writes[n].val = "Open"
      /\ \A i \in 2..Len(log) :
            (IsRead(log[i], "pid") /\ log[i].res = "ok") =>
              /\ IsWrite(log[i - 1], "sasl") /\ log[i - 1].val = "Outcome"
              /\ log[i - 1].res = "ok"
              /\ log[i].val = "Amqp" =>
                    (i < Len(log) => (IsWrite(log[i + 1], "pid") /\ log[i + 1].val = "Amqp"))
              /\ log[i].val # "Amqp" =>
                    /\ i = Len(log)
                    /\ hsError = HsUnexpectedProtocol("Amqp", log[i].val)
                    /\ Len(PidWrites) = 1
                    /\ conn = NoConn /\ disp = "Idle" /\ pc = "done"

C11_Witness ==
    /\ path = "sasl" /\ pc = "dispatch" /\ challenges = 0
    /\ Len(PidReads) = 2 /\ Len(PidWrites) = 2

\* ---------------------------------------------------------------- concurrent connections
ConcInit ==
    /\ HsInit
    /\ frames = <<>>
    /\ inner = <<>>
    /\ SharedInit

ConcNext ==
    \/ \E c \in Conns : CNegotiate(c) /\ UNCHANGED <<hsVars, cfVars>>
    \/ \E c \in Conns : CSasl(c) /\ UNCHANGED <<hsVars, cfVars>>
    \/ \E c \in Conns : COpen(c) /\ UNCHANGED <<hsVars, cfVars>>
    \/ \E c \in Conns : CFactory(c) /\ UNCHANGED <<hsVars, cfVars>>
    \/ \E c \in Conns : CDispatch(c) /\ UNCHANGED <<hsVars, cfVars>>
    \/ \E c \in Conns : CHook(c) /\ UNCHANGED <<hsVars, cfVars>>

SpecConc == ConcInit /\ [][ConcNext]_vars

\* the objects that more than one connection has mutated
MutatedByMany == {o \in Objects : Cardinality(mutators[o]) >= 2}

\* the objects one connection has mutated and another one has read or mutated
Contended ==
    {o \in Objects : \E c, d \in Conns :
        c # d /\ c \in mutators[o] /\ d \in mutators[o] \cup readers[o]}

\* C12 as stated: the factory is the only object that the steps of two
\* connections touch when one of them mutates it.
C12_OnlyFactoryShared ==
    \A o \in Contended : o = Shared("factory")

\* C12 amended: the objects that the steps of two connections touch, one of
\* them mutating, are the application factory and the registered disconnect
\* service, both fields of the shared Inner reached through get_mut; the
\* configuration is only read, and the Framed, the Connection and the
\* Cell<St> of a call are touched by that call alone.
C12_FactoryAndHookShared ==
    /\ \A o \in Contended : o \in {Shared("factory"), Shared("disconnect")}
    /\ mutators[Shared("config")] = {}
    /\ \A o \in Objects : o.owner # 0 => mutators[o] \cup readers[o] \subseteq {o.owner}
    /\ ~disconnect => mutators[Shared("disconnect")] = {}

C12_Witness ==
    /\ disconnect
    /\ MutatedByMany = {Shared("factory"), Shared("disconnect")}
    /\ carm[1] = "amqp" /\ carm[2] = "sasl"
    /\ cpc[1] = "hook" /\ cpc[2] = "hook"

SaslEvents == SelectSeq(log, LAMBDA e : e.codec = "sasl")

\* C13: the SASL negotiator is created at most once per call; its frames form
\* one uninterrupted run of the log with one mechanisms announcement and one
\* selection; once a protocol id has been read after it, no SASL frame is
\* read or written again, and a second AmqpSasl ends the handshake.
C13_OneSaslAttempt ==
    /\ saslRuns <= 1
    /\ saslRuns = 0 => Len(SaslEvents) = 0
    /\ path # "sasl" => saslRuns = 0
    /\ Len(SelectSeq(log, LAMBDA e : e.codec = "sasl" /\ e.val = "Mechanisms")) <= 1
    /\ Len(SelectSeq(log, LAMBDA e : e.codec = "sasl" /\ e.val = "Init")) <= 1
    /\ Len(SelectSeq(log, LAMBDA e : e.codec = "sasl" /\ e.val = "Outcome")) <= 1
    /\ \A i, j \in 1..Len(log) :
          (i < j /\ log[i].codec = "sasl" /\ log[j].codec = "sasl") =>
             \A k \in i..j : log[k].codec = "sasl"
    /\ \A i \in 2..Len(log) :
          IsRead(log[i], "pid") =>
            /\ \A j \in i..Len(log) : log[j].codec # "sasl"
            /\ log[i].val = "AmqpSasl" =>
                  (i = Len(log) /\ pc = "done" /\ result = "Err" /\ saslRuns = 1)
    /\ (HandshakeFailed /\ Len(log) > 0 /\ log[Len(log)].codec = "sasl") =>
          (pc = "done" /\ saslRuns = 1)

C13_Witness ==
    /\ saslRuns = 1 /\ pc = "done"
    /\ Len(log) > 2 /\ IsRead(log[Len(log)], "pid") /\ log[Len(log)].val = "AmqpSasl"
    /\ Len(SaslEvents) >= 3

\* the lifecycle state of the transport at each await point: Negotiating
\* while a protocol id is read or echoed under ProtocolIdCodec, SaslRound
\* inside the negotiator, Opening in open_connection, Open once the
\* Connection exists, Dispatching while the Dispatcher runs, Closing while
\* the hook runs, Closed when the call has resolved
Lifecycle(p) ==
    CASE p \in {"read_protocol", "send_amqp", "send_sasl", "hs_read", "hs_send"}
           -> "Negotiating"
      [] p \in {"sasl_mech", "sasl_init", "sasl_challenge", "sasl_response",
                "sasl_auth", "sasl_outcome"} -> "SaslRound"
      [] p \in {"open_read", "open_send"} -> "Opening"
      [] p = "factory" -> "Open"
      [] p = "dispatch" -> "Dispatching"
      [] p = "hook" -> "Closing"
      [] OTHER -> "Closed"

LifeRank(p) ==
    CASE Lifecycle(p) = "Negotiating" -> 1
      [] Lifecycle(p) = "SaslRound"   -> 2
      [] Lifecycle(p) = "Opening"     -> 3
      [] Lifecycle(p) = "Open"        -> 4
      [] Lifecycle(p) = "Dispatching" -> 5
      [] Lifecycle(p) = "Closing"     -> 6
      [] OTHER                        -> 7

\* the same order with the confirmation of the protocol id after SASL as a
\* stage of its own between SaslRound and Opening
StageRank(p) ==
    CASE p \in {"read_protocol", "send_amqp", "send_sasl"} -> 1
      [] Lifecycle(p) = "SaslRound" -> 2
      [] p \in {"hs_read", "hs_send"} -> 3
      [] OTHER -> LifeRank(p) + 1

\* C14 as stated: no step takes the lifecycle from a later state back to an
\* earlier one.
C14_NeverBack ==
    [][LifeRank(pc') >= LifeRank(pc)]_vars

\* C14 amended: the lifecycle only moves forward, except that on the AmqpSasl
\* arm it returns once from SaslRound to Negotiating, where the peer has to
\* confirm Amqp before Opening; the first negotiation and the SASL exchange
\* are never entered again, so the handshake is performed at most once.
C14_ForwardButConfirmation ==
    [][/\ StageRank(pc') >= StageRank(pc)
       /\ LifeRank(pc') < LifeRank(pc) =>
             (pc = "sasl_outcome" /\ pc' = "hs_read" /\ path = "sasl")
       /\ pc' = "read_protocol" => pc = "read_protocol"
       /\ saslRuns' <= 1]_vars

C14_Witness ==
    /\ pc = "hs_send" /\ path = "sasl" /\ saslRuns = 1
    /\ Lifecycle(pc) = "Negotiating"
    /\ Len(SaslEvents) >= 3

\* the read at position i was taken by its stage: a protocol id the stage
\* accepts, or an Open frame
StageAccepts(i) ==
    \/ Accepted(i)
    \/ IsRead(log[i], "amqp") /\ log[i].res = "ok" /\ log[i].val = "Open"

HandshakeCodecs == {"pid", "amqp"}

\* C15: in the two protocol-id stages and the Open stage every write follows
\* directly the accepted read of its own stage, a stage reads once and writes
\* at most once, and after a read that failed or was rejected, or a write
\* that failed, nothing more is read or written.
C15_OneReadThenOneWrite ==
    /\ Len(PidReads) <= (IF path = "sasl" THEN 2 ELSE 1)
    /\ Len(PidWrites) <= Len(PidReads)
    /\ Len(SelectSeq(log, LAMBDA e : IsRead(e, "amqp"))) <= 1
    /\ Len(SelectSeq(log, LAMBDA e : IsWrite(e, "amqp"))) <= 1
    /\ \A i \in 1..Len(log) :
         log[i].codec \in HandshakeCodecs =>
           /\ log[i].op = "write" =>
                 /\ i > 1
                 /\ log[i - 1].op = "read" /\ log[i - 1].codec = log[i].codec
                 /\ StageAccepts(i - 1)
           /\ (log[i].op = "read" /\ StageAccepts(i) /\ i < Len(log)) =>
                 (log[i + 1].op = "write" /\ log[i + 1].codec = log[i].codec)
           /\ (log[i].op = "read" /\ ~StageAccepts(i)) =>
                 (i = Len(log) /\ HandshakeFailed /\ pc = "done")
           /\ (log[i].op = "write" /\ log[i].res # "ok") =>
                 (i = Len(log) /\ HandshakeFailed /\ pc = "done")

C15_Witness ==
    /\ pc = "done" /\ HandshakeFailed /\ path = "sasl"
    /\ IsWrite(log[Len(log)], "amqp") /\ log[Len(log)].res = "err"

\* C16: the local Open is written on channel 0 directly after the peer's Open
\* has been read; a Connection exists exactly when that write succeeded, was
\* constructed right after it and holds the parameters of the Open that was
\* read; when the write fails the error is returned and no Connection exists.
C16_OpenThenConnection ==
    /\ \A i \in 1..Len(log) :
         IsWrite(log[i], "amqp") =>
           /\ log[i].val = "Open" /\ log[i].ch = 0 /\ log[i].arg = LocalOpen
           /\ i > 1
           /\ IsRead(log[i - 1], "amqp") /\ log[i - 1].res = "ok"
           /\ log[i - 1].val = "Open" /\ log[i - 1].arg = peerOpen
           /\ log[i].res = "ok" =>
                 (conn # NoConn /\ connAt = i /\ conn.remote = log[i - 1].arg)
           /\ log[i].res # "ok" =>
                 /\ conn = NoConn /\ dispConn = NoConn
                 /\ hsError = HsCodecError /\ result = "Err" /\ pc = "done"
    /\ conn # NoConn =>
         /\ connAt \in 2..Len(log)
         /\ IsWrite(log[connAt], "amqp") /\ log[connAt].res = "ok"
         /\ conn.remote \in OpenParams /\ conn.remote = peerOpen
         /\ conn.local = LocalOpen
    /\ conn = NoConn => connAt = -1

C16_Witness ==
    /\ conn # NoConn /\ conn.remote = 2
    /\ log[connAt - 1].ch = 1 /\ log[connAt].ch = 0
    /\ pc = "factory"

\* C17: end of stream at each read of the handshake (first protocol id,
\* protocol id after SASL, Open) fails the handshake with Disconnected, and
\* nothing is written afterwards.
C17_EofIsDisconnected ==
    \A i \in 1..Len(log) :
      (log[i].op = "read" /\ log[i].codec \in HandshakeCodecs /\ log[i].res = "eof") =>
        /\ i = Len(log)
        /\ pc = "done" /\ result = "Err"
        /\ hsError = HsDisconnected

\* C18: the hook is invoked at most once and only when the Dispatcher has
\* terminated; what it sees through its State is the application state as
\* the Dispatcher left it, every mutation made during dispatch included.
C18_HookSeesDispatcherState ==
    /\ hookCalls <= 1
    /\ disp # "Done" => (hookCalls = 0 /\ hookSaw = -1)
    /\ pc \in {"hook"} => (hookCalls = 1 /\ disp = "Done")
    /\ hookCalls = 1 =>
          /\ disp = "Done" /\ dispRes \in {"Ok", "Err"}
          /\ stCell \in 0..MaxDispatch
          /\ hookSaw = stCell

C18_Witness ==
    /\ hookCalls = 1 /\ pc = "hook"
    /\ stCell = MaxDispatch /\ hookSaw = MaxDispatch

\* ---------------------------------------------------------------- liveness
\* the step A of the call, which leaves everything else alone
Completes(A) == A /\ UNCHANGED <<cfVars, shVars>>

\* every awaited operation (transport read or write, SASL step, factory call,
\* Dispatcher, disconnect service) eventually completes
Fairness ==
    /\ WF_vars(Completes(ReadProtocol)) /\ WF_vars(Completes(SendAmqp))
    /\ WF_vars(Completes(SendSasl)) /\ WF_vars(Completes(SaslMechanisms))
    /\ WF_vars(Completes(SaslInit)) /\ WF_vars(Completes(SaslChallenge))
    /\ WF_vars(Completes(SaslResponse)) /\ WF_vars(Completes(SaslAuth))
    /\ WF_vars(Completes(SaslOutcome)) /\ WF_vars(Completes(HandshakeRead))
    /\ WF_vars(Completes(HandshakeSend)) /\ WF_vars(Completes(OpenRead))
    /\ WF_vars(Completes(OpenSend)) /\ WF_vars(Completes(FactoryCall))
    /\ WF_vars(Completes(DispatcherDone)) /\ WF_vars(Completes(HookDone))

LiveSpec == Init /\ [][Next]_vars /\ Fairness

\* some awaited operation of the call is outstanding: its completion is a
\* step the call can take
Outstanding ==
    \/ ENABLED ReadProtocol \/ ENABLED SendAmqp \/ ENABLED SendSasl
    \/ ENABLED SaslMechanisms \/ ENABLED SaslInit \/ ENABLED SaslChallenge
    \/ ENABLED SaslResponse \/ ENABLED SaslAuth \/ ENABLED SaslOutcome
    \/ ENABLED HandshakeRead \/ ENABLED HandshakeSend
    \/ ENABLED OpenRead \/ ENABLED OpenSend \/ ENABLED FactoryCall
    \/ ENABLED DispatcherDone \/ ENABLED HookDone

\* C19: when every awaited operation eventually completes, every call
\* eventually resolves; until it has resolved, some awaited operation is
\* still outstanding.
C19_EventuallyResolves ==
    /\ [](~Resolved => Outstanding)
    /\ <>(Resolved /\ pc = "done")

C19_Witness ==
    /\ Resolved /\ pc = "done"
    /\ path = "amqp" /\ disp = "Done" /\ hookRes = "Ok" /\ stCell = MaxDispatch

====
